---- MODULE Spec2Model ----
(***************************************************************************)
(* Model of playwright_stealth/stealth.py: the patch registry SCRIPTS, the *)
(* StealthConfig dataclass with its enabled_scripts generator, the two     *)
(* apply operations stealth_sync / stealth_async, and add_stealth_headers  *)
(* with its route handler.                                                  *)
(*                                                                          *)
(* Text is modelled as a sequence of lexemes (strings): a lexeme is either *)
(* the line break NL, a double quote, or an opaque run of other characters. *)
(* Python values that json.dumps sees are tagged records.                   *)
(***************************************************************************)
EXTENDS Integers, Sequences, FiniteSets, TLC

VARIABLES
    \* a caller constructs one StealthConfig and reads it (SpecCfg)
    config,        \* the StealthConfig instance
    scripts,       \* the list scripts the for loop fills; [] before the loop
    \* callers mutate configurations between and during reads (SpecGen)
    objs,          \* the fields of each StealthConfig object
    gen,           \* the generator object of the read in progress
    last,          \* the previous read that ran to exhaustion
    flips,         \* number of field assignments made so far
    abandoned,     \* number of generators dropped before exhaustion
    \* composition of an arbitrary fragment list (SpecCompose)
    frags,         \* what enabled_scripts of the configuration yields
    combined,      \* the combined_script of the last composition
    \* the header merge of the route handler (SpecHeaders)
    hdrIn,         \* request.headers
    forwarded,     \* the header mappings handed to route.continue_
    \* pages, apply calls and the driver (Spec, NetSpec)
    pageOpen,      \* page -> whether the page is still usable
    routes,        \* page -> URL patterns of the registered interception rules
    initScripts,   \* page -> init scripts registered, in registration order
    calls,         \* log of the stealth_sync / stealth_async calls made
    headerCalls,   \* outcomes of the direct calls of add_stealth_headers
    neverAwaited,  \* coroutine objects created and dropped without being run
    requests       \* log of the requests the pages issued

cfgVars == <<config, scripts>>
genVars == <<objs, gen, last, flips, abandoned>>
composeVars == <<frags, combined>>
headerVars == <<hdrIn, forwarded>>
pageVars == <<pageOpen, routes, initScripts, calls, headerCalls, neverAwaited, requests>>
vars == <<cfgVars, genVars, composeVars, headerVars, pageVars>>

----------------------------------------------------------------------------
(* Text helpers *)

NL == "\n"
QUOTE == "\""

RECURSIVE Join(_, _)
\* str.join: sep.join(ts)
Join(sep, ts) ==
    IF ts = <<>> THEN <<>>
    ELSE IF Len(ts) = 1 THEN ts[1]
    ELSE ts[1] \o sep \o Join(sep, Tail(ts))

Contains(text, pat) ==
    \E i \in 1..(Len(text) - Len(pat) + 1) : SubSeq(text, i, i + Len(pat) - 1) = pat

----------------------------------------------------------------------------
(* Patch registry: SCRIPTS, loaded once by from_file *)

\* the files of the ./js directory; the content of a file is opaque text of two
\* lines that is particular to the file
JsFile(name) == <<"<" \o name \o " line 1>", NL, "<" \o name \o " line 2>">>

from_file(name) == JsFile(name)

SCRIPTS ==
    [chrome_csi |-> from_file("chrome.csi.js"),
     chrome_app |-> from_file("chrome.app.js"),
     chrome_runtime |-> from_file("chrome.runtime.js"),
     chrome_load_times |-> from_file("chrome.load.times.js"),
     generate_magic_arrays |-> from_file("generate.magic.arrays.js"),
     iframe_content_window |-> from_file("iframe.contentWindow.js"),
     media_codecs |-> from_file("media.codecs.js"),
     navigator_vendor |-> from_file("navigator.vendor.js"),
     navigator_plugins |-> from_file("navigator.plugins.js"),
     navigator_permissions |-> from_file("navigator.permissions.js"),
     navigator_languages |-> from_file("navigator.languages.js"),
     navigator_user_agent |-> from_file("navigator.userAgent.js"),
     navigator_hardware_concurrency |-> from_file("navigator.hardwareConcurrency.js"),
     outerdimensions |-> from_file("window.outerdimensions.js"),
     utils |-> from_file("utils.js"),
     webdriver |-> from_file("navigator.webdriver.js"),
     webgl_vendor |-> from_file("webgl.vendor.js")]

----------------------------------------------------------------------------
(* Python values and json.dumps *)

PyNone == [t |-> "None"]
PyStr(s) == [t |-> "str", s |-> s]
PyList(xs) == [t |-> "list", items |-> xs]

\* json.dumps of one character run inside a string literal
JsonEscape(lexeme) ==
    IF lexeme = NL THEN "\\n"
    ELSE IF lexeme = QUOTE THEN "\\\""
    ELSE lexeme

JsonStr(s) == <<QUOTE>> \o [i \in 1..Len(s) |-> JsonEscape(s[i])] \o <<QUOTE>>

\* json.dumps of None, a str, or a list of str
JsonDumps(v) ==
    CASE v.t = "None" -> <<"null">>
      [] v.t = "str" -> JsonStr(v.s)
      [] v.t = "list" ->
            <<"[">> \o Join(<<", ">>, [i \in 1..Len(v.items) |-> JsonStr(v.items[i].s)])
                    \o <<"]">>

\* json.dumps of a dict given as a sequence of <<key, value>> pairs
JsonDumpsDict(pairs) ==
    <<"{">> \o Join(<<", ">>, [i \in 1..Len(pairs) |->
                        JsonStr(<<pairs[i][1]>>) \o <<": ">> \o JsonDumps(pairs[i][2])])
            \o <<"}">>

----------------------------------------------------------------------------
(* StealthConfig *)

\* the boolean script options of the dataclass, in declaration order
Toggles ==
    <<"webdriver", "webgl_vendor", "chrome_app", "chrome_csi", "chrome_load_times",
      "chrome_runtime", "iframe_content_window", "media_codecs", "navigator_languages",
      "navigator_permissions", "navigator_plugins", "navigator_user_agent",
      "navigator_vendor", "outerdimensions">>

ToggleSet == {Toggles[i] : i \in 1..Len(Toggles)}

\* StealthConfig(): every field at its default
DefaultConfig ==
    [webdriver |-> TRUE,
     webgl_vendor |-> TRUE,
     chrome_app |-> TRUE,
     chrome_csi |-> TRUE,
     chrome_load_times |-> TRUE,
     chrome_runtime |-> TRUE,
     iframe_content_window |-> TRUE,
     media_codecs |-> TRUE,
     navigator_hardware_concurrency |-> 4,
     navigator_languages |-> TRUE,
     navigator_permissions |-> TRUE,
     navigator_plugins |-> TRUE,
     navigator_user_agent |-> TRUE,
     navigator_vendor |-> TRUE,
     outerdimensions |-> TRUE,
     vendor |-> PyStr(<<"Intel Inc.">>),
     renderer |-> PyStr(<<"Intel Iris OpenGL Engine">>),
     nav_vendor |-> PyStr(<<"Google Inc.">>),
     nav_user_agent |-> PyNone,
     nav_platform |-> PyNone,
     languages |-> PyList(<<PyStr(<<"en-US">>), PyStr(<<"en">>)>>),
     runOnInsecureOrigins |-> PyNone]

\* the dict handed to json.dumps
OptsDict(cfg) ==
    << <<"webgl_vendor", cfg.vendor>>,
       <<"webgl_renderer", cfg.renderer>>,
       <<"navigator_vendor", cfg.nav_vendor>>,
       <<"navigator_platform", cfg.nav_platform>>,
       <<"navigator_user_agent", cfg.nav_user_agent>>,
       <<"languages", cfg.languages>>,
       <<"runOnInsecureOrigins", cfg.runOnInsecureOrigins>> >>

\* f"const opts = {opts}"
OptsFragment(cfg) == <<"const opts = ">> \o JsonDumpsDict(OptsDict(cfg))

\* the if-chain written in the key order of SCRIPTS instead
BodyRegistryOrder ==
    << [kind |-> "opts", toggle |-> "", script |-> ""],
       [kind |-> "always", toggle |-> "", script |-> "utils"],
       [kind |-> "always", toggle |-> "", script |-> "generate_magic_arrays"],
       [kind |-> "if", toggle |-> "chrome_csi", script |-> "chrome_csi"],
       [kind |-> "if", toggle |-> "chrome_app", script |-> "chrome_app"],
       [kind |-> "if", toggle |-> "chrome_runtime", script |-> "chrome_runtime"],
       [kind |-> "if", toggle |-> "chrome_load_times", script |-> "chrome_load_times"],
       [kind |-> "if", toggle |-> "iframe_content_window", script |-> "iframe_content_window"],
       [kind |-> "if", toggle |-> "media_codecs", script |-> "media_codecs"],
       [kind |-> "if", toggle |-> "navigator_vendor", script |-> "navigator_vendor"],
       [kind |-> "if", toggle |-> "navigator_plugins", script |-> "navigator_plugins"],
       [kind |-> "if", toggle |-> "navigator_permissions", script |-> "navigator_permissions"],
       [kind |-> "if", toggle |-> "navigator_languages", script |-> "navigator_languages"],
       [kind |-> "if", toggle |-> "navigator_user_agent", script |-> "navigator_user_agent"],
       [kind |-> "if", toggle |-> "outerdimensions", script |-> "outerdimensions"],
       [kind |-> "if", toggle |-> "webdriver", script |-> "webdriver"],
       [kind |-> "if", toggle |-> "webgl_vendor", script |-> "webgl_vendor"] >>

\* the statements of the generator body that can yield, in program order
Body ==
    << [kind |-> "opts", toggle |-> "", script |-> ""],
       [kind |-> "always", toggle |-> "", script |-> "utils"],
       [kind |-> "always", toggle |-> "", script |-> "generate_magic_arrays"],
       [kind |-> "if", toggle |-> "chrome_app", script |-> "chrome_app"],
       [kind |-> "if", toggle |-> "chrome_csi", script |-> "chrome_csi"],
       [kind |-> "if", toggle |-> "chrome_load_times", script |-> "chrome_load_times"],
       [kind |-> "if", toggle |-> "chrome_runtime", script |-> "chrome_runtime"],
       [kind |-> "if", toggle |-> "iframe_content_window", script |-> "iframe_content_window"],
       [kind |-> "if", toggle |-> "media_codecs", script |-> "media_codecs"],
       [kind |-> "if", toggle |-> "navigator_languages", script |-> "navigator_languages"],
       [kind |-> "if", toggle |-> "navigator_permissions", script |-> "navigator_permissions"],
       [kind |-> "if", toggle |-> "navigator_plugins", script |-> "navigator_plugins"],
       [kind |-> "if", toggle |-> "navigator_user_agent", script |-> "navigator_user_agent"],
       [kind |-> "if", toggle |-> "navigator_vendor", script |-> "navigator_vendor"],
       [kind |-> "if", toggle |-> "webdriver", script |-> "webdriver"],
       [kind |-> "if", toggle |-> "outerdimensions", script |-> "outerdimensions"],
       [kind |-> "if", toggle |-> "webgl_vendor", script |-> "webgl_vendor"] >>

\* whether statement step yields when control reaches it
StepYields(cfg, step) == IF step.kind = "if" THEN cfg[step.toggle] ELSE TRUE

\* the value the statement at position k yields
YieldValue(cfg, k) ==
    IF Body[k].kind = "opts" THEN OptsFragment(cfg) ELSE SCRIPTS[Body[k].script]

RECURSIVE NextYield(_, _)
\* position of the first statement at or after pc that yields; Len(Body) + 1
\* when the generator runs off its end (StopIteration)
NextYield(cfg, pc) ==
    IF pc > Len(Body) THEN pc
    ELSE IF StepYields(cfg, Body[pc]) THEN pc
    ELSE NextYield(cfg, pc + 1)

RECURSIVE Collect(_, _, _)
\* for script in cfg.enabled_scripts: scripts.append(script)
Collect(cfg, pc, acc) ==
    LET k == NextYield(cfg, pc)
    IN  IF k > Len(Body) THEN acc
        ELSE Collect(cfg, k + 1, Append(acc, YieldValue(cfg, k)))

\* a read that also emits the hardware-concurrency patch when the value is
\* overridden
EnabledScriptsWithConcurrency(cfg) ==
    Collect(cfg, 1, <<>>)
        \o (IF cfg.navigator_hardware_concurrency # 4
            THEN <<SCRIPTS["navigator_hardware_concurrency"]>> ELSE <<>>)

\* one complete read of the enabled_scripts property
enabled_scripts(cfg) == Collect(cfg, 1, <<>>)

----------------------------------------------------------------------------
(* Composition of the init script *)

\* the statement stealth_async appends
\* (the two backquotes of the template literal are spelled out, since a
\* string of this language cannot hold one)
EndStatement == "console.log(<backquote>end<backquote>);"

\* the suffix of the async script: a line break and the statement
Marker == <<NL, EndStatement>>

\* a join that puts nothing between the fragments
ComposeNoSeparator(scr) == Join(<<>>, scr)

\* stealth_sync: combined_script = "\n".join(scripts)
ComposeSync(scr) == Join(<<NL>>, scr)

\* an async composition that appends nothing
ComposeAsyncUnmarked(scr) == Join(<<NL>>, scr)

\* stealth_async: combined_script = "\n".join(scripts) + Marker
ComposeAsync(scr) == Join(<<NL>>, scr) \o Marker

----------------------------------------------------------------------------
(* The header overlay of the route handler *)

\* the literal entries of the dict display after **request.headers, in order
StealthHeaders ==
    << <<"sec-ch-ua", "\"Chromium\";v=\"129\", \"Not=A?Brand\";v=\"8\"">>,
       <<"sec-ch-ua-mobile", "?0">>,
       <<"sec-ch-ua-platform", "\"macOS\"">>,
       <<"sec-ch-ua-form-factors", "desktop">>,
       <<"upgrade-insecure-requests", "1">>,
       <<"dnt", "1">>,
       <<"user-agent", "Mozilla/5.0 (Macintosh; Intel Mac OS X 10_15_7) AppleWebKit/537.36 (KHTML, like Gecko) Chrome/129.0.0.0 Safari/537.36">>,
       <<"accept", "\ttext/html,application/xhtml+xml,application/xml;q=0.9,image/avif,image/webp,image/apng,*/*;q=0.8,application/signed-exchange;v=b3;q=0.7">>,
       <<"sec-fetch-site", "cross-site">>,
       <<"sec-fetch-mode", "navigate">>,
       <<"sec-fetch-user", "?1">>,
       <<"sec-fetch-dest", "document">>,
       <<"referer", "https://www.google.com/">>,
       <<"accept-encoding", "gzip, deflate, br, zstd">>,
       <<"accept-language", "en-US,en;q=0.9">> >>

\* a dict is a function from its keys; d[k] = v on a dict
DictSet(d, k, v) == [x \in (DOMAIN d) \cup {k} |-> IF x = k THEN v ELSE d[x]]

RECURSIVE DictDisplay(_, _)
\* {**d, k1: v1, ..., kn: vn}: the entries are applied left to right
DictDisplay(d, entries) ==
    IF entries = <<>> THEN d
    ELSE DictDisplay(DictSet(d, entries[1][1], entries[1][2]), Tail(entries))

\* {**spoof, **request.headers}: the values of the request win
HeadersRequestWins(h) ==
    LET spoof == DictDisplay([k \in {} |-> ""], StealthHeaders)
    IN  [k \in (DOMAIN spoof) \cup (DOMAIN h) |-> IF k \in DOMAIN h THEN h[k] ELSE spoof[k]]

\* the headers= argument of route.continue_
MergedHeaders(h) == DictDisplay(h, StealthHeaders)

\* a handler that leaves requests that already carry a user-agent alone
HandlerSkipsUserAgent(request) ==
    IF "user-agent" \in DOMAIN request.headers THEN <<>>
    ELSE <<[op |-> "continue_", headers |-> MergedHeaders(request.headers)]>>

\* lambda route, request: route.continue_(headers={...}); the calls it makes
\* on the route
StealthHeadersHandler(request) ==
    <<[op |-> "continue_", headers |-> MergedHeaders(request.headers)]>>

----------------------------------------------------------------------------
(* Bounds and input domains *)

MaxFrags == 3        \* fragments in a composed sequence
MaxFragLen == 2      \* lexemes in one fragment
MaxFlips == 2        \* field assignments on configurations
MaxAbandoned == 1    \* reads given up before the generator is exhausted
MaxCalls == 2        \* stealth_sync / stealth_async calls
MaxHeaderCalls == 1  \* direct calls of add_stealth_headers
MaxRequests == 2     \* requests issued by the pages

\* values a caller passes for navigator_hardware_concurrency
HardwareValues == {4, 8}

\* values a caller passes for nav_user_agent
UserAgentValues == {PyNone, PyStr(<<"Mozilla/5.0 ", QUOTE, "X", QUOTE, NL>>)}

\* the lexemes fragments are made of in SpecCompose
Alphabet == {NL, EndStatement}

Fragments == UNION {[1..n -> Alphabet] : n \in 0..MaxFragLen}

FragmentLists == UNION {[1..n -> Fragments] : n \in 0..MaxFrags}

\* header names and values of the requests in SpecHeaders
HeaderNames == {"user-agent", "accept-language", "cookie", "x-requested-with"}

HeaderValuesOf(k) ==
    {"v1", "v2"} \cup {StealthHeaders[i][2] : i \in {j \in 1..Len(StealthHeaders) : StealthHeaders[j][1] = k}}

HeaderMaps ==
    UNION {{h \in [ks -> UNION {HeaderValuesOf(k) : k \in HeaderNames}] :
                \A k \in ks : h[k] \in HeaderValuesOf(k)} : ks \in SUBSET HeaderNames}

----------------------------------------------------------------------------
(* The state each part of the program is in before it is used *)

EmptyDict == [k \in {} |-> ""]
NoGen == [status |-> "none"]
NoRead == [status |-> "none"]
NoCombined == [fn |-> "none"]
Objects == {"a", "b"}
Pages == {"sync_page", "async_page"}

CfgParked == config = DefaultConfig /\ scripts = <<>>

GenParked ==
    /\ objs = [o \in Objects |-> DefaultConfig]
    /\ gen = NoGen
    /\ last = NoRead
    /\ flips = 0
    /\ abandoned = 0

ComposeParked == frags = <<>> /\ combined = NoCombined

HeadersParked == hdrIn = EmptyDict /\ forwarded = <<>>

PagesFresh ==
    /\ pageOpen = [p \in Pages |-> TRUE]
    /\ routes = [p \in Pages |-> <<>>]
    /\ initScripts = [p \in Pages |-> <<>>]
    /\ calls = <<>>
    /\ headerCalls = <<>>
    /\ neverAwaited = 0
    /\ requests = <<>>

----------------------------------------------------------------------------
(* SpecCfg: a caller constructs a StealthConfig with any toggle values and *)
(* stealth_sync / stealth_async collect its enabled_scripts.               *)

WithToggles(base, on) ==
    [f \in DOMAIN base |-> IF f \in ToggleSet THEN f \in on ELSE base[f]]

CfgInit ==
    /\ \E on \in SUBSET ToggleSet, hw \in HardwareValues, ua \in UserAgentValues :
          config = [WithToggles(DefaultConfig, on) EXCEPT
                        !.navigator_hardware_concurrency = hw,
                        !.nav_user_agent = ua]
    /\ scripts = <<>>
    /\ GenParked /\ ComposeParked /\ HeadersParked /\ PagesFresh

\* scripts = []; for script in config.enabled_scripts: scripts.append(script)
ReadScripts ==
    /\ scripts = <<>>
    /\ scripts' = enabled_scripts(config)
    /\ UNCHANGED <<config, genVars, composeVars, headerVars, pageVars>>

SpecCfg == CfgInit /\ [][ReadScripts]_vars

\* the optional patches in the order the documentation fixes
FixedOrder ==
    <<"chrome_app", "chrome_csi", "chrome_load_times", "chrome_runtime",
      "iframe_content_window", "media_codecs", "navigator_languages",
      "navigator_permissions", "navigator_plugins", "navigator_user_agent",
      "navigator_vendor", "webdriver", "outerdimensions", "webgl_vendor">>

RECURSIVE FilterOn(_, _)
FilterOn(names, cfg) ==
    IF names = <<>> THEN <<>>
    ELSE (IF cfg[Head(names)] THEN <<SCRIPTS[Head(names)]>> ELSE <<>>)
            \o FilterOn(Tail(names), cfg)

RemoveAt(s, i) == SubSeq(s, 1, i - 1) \o SubSeq(s, i + 1, Len(s))

AllOn(cfg) == [f \in DOMAIN cfg |-> IF f \in ToggleSet THEN TRUE ELSE cfg[f]]

\* C2: every toggle assignment yields the options constant, utils,
\* generate_magic_arrays and then the fixed list filtered to the enabled
\* toggles; with every toggle on that is 17 fragments, and with exactly one
\* toggle off it is the 17 with that one fragment removed.
C2_FixedOrderFiltered ==
    scripts # <<>> =>
        /\ scripts = <<OptsFragment(config), SCRIPTS["utils"], SCRIPTS["generate_magic_arrays"]>>
                        \o FilterOn(FixedOrder, config)
        /\ (\A t \in ToggleSet : config[t]) => Len(scripts) = 17
        /\ \A i \in 1..Len(FixedOrder) :
              (\A t \in ToggleSet : config[t] <=> t # FixedOrder[i]) =>
                  /\ scripts = RemoveAt(enabled_scripts(AllOn(config)), 3 + i)
                  /\ enabled_scripts(AllOn(config))[3 + i] = SCRIPTS[FixedOrder[i]]

\* a read of a configuration with exactly chrome_app switched off
C2_Witness ==
    /\ Len(scripts) = 16
    /\ ~config["chrome_app"]
    /\ \A i \in 1..Len(scripts) : scripts[i] # SCRIPTS["chrome_app"]

\* C10: navigator_hardware_concurrency has no effect: its patch is never
\* emitted, its value does not reach the options constant, and the fragments
\* and both composed scripts are those of the same configuration with the
\* default value 4.
C10_HardwareConcurrencyIgnored ==
    scripts # <<>> =>
        LET same == [config EXCEPT !.navigator_hardware_concurrency = 4]
        IN  /\ \A i \in 1..Len(scripts) : scripts[i] # SCRIPTS["navigator_hardware_concurrency"]
            /\ scripts[1] = OptsFragment(same)
            /\ \A i \in 1..Len(OptsDict(config)) :
                  OptsDict(config)[i][1] # "navigator_hardware_concurrency"
            /\ scripts = enabled_scripts(same)
            /\ ComposeSync(scripts) = ComposeSync(enabled_scripts(same))
            /\ ComposeAsync(scripts) = ComposeAsync(enabled_scripts(same))

\* a read of a configuration whose navigator_hardware_concurrency is not 4
C10_Witness == scripts # <<>> /\ config.navigator_hardware_concurrency = 8

----------------------------------------------------------------------------
(* SpecCompose: the list scripts holds any finite sequence of strings (the *)
(* class docstring has callers override enabled_scripts and yield their    *)
(* own fragments around the base ones) and the two apply operations        *)
(* compose it.                                                             *)

\* the sequence with the fragments at positions i and j exchanged
Swapped(fs, i, j) ==
    [k \in 1..Len(fs) |-> IF k = i THEN fs[j] ELSE IF k = j THEN fs[i] ELSE fs[k]]

ComposeInit ==
    /\ frags \in FragmentLists
    /\ combined = NoCombined
    /\ CfgParked /\ GenParked /\ HeadersParked /\ PagesFresh

\* stealth_sync composes the list
SyncCompose ==
    /\ combined = NoCombined
    /\ combined' = [fn |-> "stealth_sync", i |-> 0, j |-> 0, script |-> ComposeSync(frags)]
    /\ UNCHANGED <<frags, cfgVars, genVars, headerVars, pageVars>>

\* stealth_async composes the list
AsyncCompose ==
    /\ combined = NoCombined
    /\ combined' = [fn |-> "stealth_async", i |-> 0, j |-> 0, script |-> ComposeAsync(frags)]
    /\ UNCHANGED <<frags, cfgVars, genVars, headerVars, pageVars>>

\* stealth_sync composes the list of a configuration that yields the same
\* fragments with two of them exchanged
SwappedCompose ==
    /\ combined = NoCombined
    /\ \E i \in 1..Len(frags), j \in 1..Len(frags) :
          /\ i < j
          /\ combined' = [fn |-> "swapped", i |-> i, j |-> j,
                          script |-> ComposeSync(Swapped(frags, i, j))]
    /\ UNCHANGED <<frags, cfgVars, genVars, headerVars, pageVars>>

ComposeNext == SyncCompose \/ AsyncCompose \/ SwappedCompose

SpecCompose == ComposeInit /\ [][ComposeNext]_vars

HasLineBreak(f) == \E k \in 1..Len(f) : f[k] = NL

HasEndStatement(f) == \E k \in 1..Len(f) : f[k] = EndStatement

\* C5 as stated: the async script is the sync script of the same fragments
\* with the marker appended, and the sync script never contains the marker.
C5_SyncNeverContainsMarker ==
    /\ combined.fn = "stealth_async" => combined.script = ComposeSync(frags) \o Marker
    /\ combined.fn = "stealth_sync" => ~Contains(combined.script, Marker)

\* C5 amended: the async script is the sync script of the same fragments with
\* the marker appended; the sync script is the bare join, which ends with
\* the last fragment, and it contains the marker only when some fragment
\* holds the end statement.
C5_AsyncIsSyncPlusMarker ==
    /\ combined.fn = "stealth_async" =>
          /\ combined.script = ComposeSync(frags) \o Marker
          /\ Len(combined.script) = Len(ComposeSync(frags)) + 2
          /\ SubSeq(combined.script, Len(combined.script) - 1, Len(combined.script)) = Marker
    /\ combined.fn = "stealth_sync" =>
          /\ frags # <<>> =>
                SubSeq(combined.script, Len(combined.script) - Len(frags[Len(frags)]) + 1,
                       Len(combined.script)) = frags[Len(frags)]
          /\ (\A k \in 1..Len(frags) : ~HasEndStatement(frags[k])) =>
                ~Contains(combined.script, Marker)

\* an async composition of two fragments, and nothing but line breaks in them
C5_Witness ==
    /\ combined.fn = "stealth_async"
    /\ Len(frags) = 2
    /\ frags[1] # <<>>
    /\ \A k \in 1..Len(frags) : ~HasEndStatement(frags[k])

\* C6 as stated: exchanging two fragments that are not identical changes
\* the composed string.
C6_SwapChangesScript ==
    combined.fn = "swapped" =>
        (frags[combined.i] # frags[combined.j] => combined.script # ComposeSync(frags))

\* C6 amended: exchanging two fragments that are not identical and hold no
\* line break changes the composed string, whatever the other fragments are.
C6_SwapOfSingleLinesChangesScript ==
    combined.fn = "swapped" =>
        (/\ frags[combined.i] # frags[combined.j]
         /\ ~HasLineBreak(frags[combined.i])
         /\ ~HasLineBreak(frags[combined.j])
         => combined.script # ComposeSync(frags))

\* two single-line fragments exchanged around a fragment with a line break
C6_Witness ==
    /\ combined.fn = "swapped"
    /\ combined.i = 1 /\ combined.j = 3
    /\ frags[1] # frags[3]
    /\ ~HasLineBreak(frags[1]) /\ ~HasLineBreak(frags[3])
    /\ HasLineBreak(frags[2])

----------------------------------------------------------------------------
(* SpecHeaders: the handler merges the headers of one request, and then of *)
(* a request that arrives with the headers it forwarded.                   *)

HeadersInit ==
    /\ hdrIn \in HeaderMaps
    /\ forwarded = <<>>
    /\ CfgParked /\ GenParked /\ ComposeParked /\ PagesFresh

\* the handler runs on a request with headers hdrIn
Forward ==
    /\ forwarded = <<>>
    /\ forwarded' = <<StealthHeadersHandler([headers |-> hdrIn])[1].headers>>
    /\ UNCHANGED <<hdrIn, cfgVars, genVars, composeVars, pageVars>>

\* the handler runs on a request that carries the headers forwarded before
ForwardAgain ==
    /\ Len(forwarded) = 1
    /\ forwarded' = Append(forwarded,
                           StealthHeadersHandler([headers |-> forwarded[1]])[1].headers)
    /\ UNCHANGED <<hdrIn, cfgVars, genVars, composeVars, pageVars>>

HeadersNext == Forward \/ ForwardAgain

SpecHeaders == HeadersInit /\ [][HeadersNext]_vars

SpoofKeys == {StealthHeaders[i][1] : i \in 1..Len(StealthHeaders)}

SpoofValue(k) == StealthHeaders[CHOOSE i \in 1..Len(StealthHeaders) : StealthHeaders[i][1] = k][2]

\* C3: the forwarded mapping is the original one updated with the 15 spoofed
\* keys: each spoofed key carries its fixed value, every other key of the
\* original keeps its value, and merging a merged mapping changes nothing.
C3_OverlayOverridesAndPreserves ==
    /\ Cardinality(SpoofKeys) = 15
    /\ Len(forwarded) >= 1 =>
          /\ DOMAIN forwarded[1] = (DOMAIN hdrIn) \cup SpoofKeys
          /\ \A k \in SpoofKeys : forwarded[1][k] = SpoofValue(k)
          /\ \A k \in (DOMAIN hdrIn) \ SpoofKeys : forwarded[1][k] = hdrIn[k]
    /\ Len(forwarded) = 2 => forwarded[2] = forwarded[1]

\* a request that brought its own user-agent and a cookie was merged twice
C3_Witness ==
    /\ Len(forwarded) = 2
    /\ "user-agent" \in DOMAIN hdrIn /\ hdrIn["user-agent"] = "v1"
    /\ "cookie" \in DOMAIN hdrIn
    /\ forwarded[1]["cookie"] = hdrIn["cookie"]

----------------------------------------------------------------------------
(* Pages and the browser driver.  sync_page is a playwright.sync_api Page: *)
(* its methods act when called.  async_page is a playwright.async_api Page: *)
(* its methods return a coroutine that acts only when awaited.              *)

IsSyncPage(p) == p = "sync_page"

\* page.add_init_script reaching the driver: appended to the scripts of the
\* page, or refused when the page is closed
DriverAddInitScript(open, registered, script) ==
    IF open THEN [ok |-> TRUE, value |-> Append(registered, script)]
    ELSE [ok |-> FALSE, value |-> registered]

\* page.route reaching the driver: a rule for the pattern is added, or refused
\* when the page is closed
DriverRoute(open, rules, pattern) ==
    IF open THEN [ok |-> TRUE, value |-> Append(rules, pattern)]
    ELSE [ok |-> FALSE, value |-> rules]

\* the configurations the callers of this model pass
CallConfigs == {"None", "no_chrome_app_no_navigator_vendor"}

ConfigArg(name) ==
    IF name = "None" THEN PyNone
    ELSE [DefaultConfig EXCEPT !.chrome_app = FALSE, !.navigator_vendor = FALSE]

\* config or StealthConfig()
ResolveConfig(name) == IF name = "None" THEN DefaultConfig ELSE ConfigArg(name)

\* add_stealth_headers(page) as stealth_sync and stealth_async call it: the
\* function is an async def, so the call only creates a coroutine object; the
\* object is dropped and the body never runs
CallAddStealthHeaders(p) ==
    [routeAttempts |-> 0, rules |-> routes[p], raised |-> FALSE, dropped |-> 1]

\* the body of add_stealth_headers, run when a caller awaits the coroutine:
\* page.route("**/*", handler), itself not awaited
AddStealthHeadersBody(p) ==
    IF IsSyncPage(p)
    THEN LET r == DriverRoute(pageOpen[p], routes[p], "**/*")
         IN  [routeAttempts |-> 1, rules |-> r.value, raised |-> ~r.ok, dropped |-> 0]
    ELSE [routeAttempts |-> 0, rules |-> routes[p], raised |-> FALSE, dropped |-> 1]

\* one add_init_script call per fragment
InjectorCallsPerFragment(scr, combined_script) == scr

\* the add_init_script calls of one apply call: page.add_init_script(combined_script)
InjectorCalls(scr, combined_script) == <<combined_script>>

\* an except clause that swallows the failure of the driver
OutcomeSwallowed(ok) == "returned"

\* no try/except: what the driver raises leaves the apply call
Outcome(ok) == IF ok THEN "returned" ELSE "raised"

\* the driver runs the add_init_script calls in order; the first refusal
\* raises and ends them
RunInjectorCalls(open, registered, injected) ==
    IF injected = <<>> THEN [ok |-> TRUE, value |-> registered, attempts |-> 0]
    ELSE IF open THEN [ok |-> TRUE, value |-> registered \o injected, attempts |-> Len(injected)]
    ELSE [ok |-> DriverAddInitScript(open, registered, injected[1]).ok,
          value |-> registered, attempts |-> 1]

\* stealth_sync(page, config)
StealthSyncRun(p, name) ==
    LET scr == enabled_scripts(ResolveConfig(name))
        hdr == CallAddStealthHeaders(p)
        combined_script == ComposeSync(scr)
        reg == RunInjectorCalls(pageOpen[p], initScripts[p], InjectorCalls(scr, combined_script))
    IN  [call |-> [fn |-> "stealth_sync", page |-> p, cfg |-> name,
                   script |-> combined_script,
                   routeAttempts |-> hdr.routeAttempts,
                   rulesAtHandOver |-> Len(hdr.rules),
                   initAttempts |-> reg.attempts,
                   driverRaised |-> hdr.raised \/ ~reg.ok,
                   pc |-> Outcome(~hdr.raised /\ reg.ok)],
         rules |-> hdr.rules, registered |-> reg.value, dropped |-> hdr.dropped]

\* stealth_async(page, config) up to the point where the await of
\* page.add_init_script suspends it
StealthAsyncRun(p, name) ==
    LET scr == enabled_scripts(ResolveConfig(name))
        hdr == CallAddStealthHeaders(p)
        combined_script == ComposeAsync(scr)
        reg == RunInjectorCalls(pageOpen[p], initScripts[p], InjectorCalls(scr, combined_script))
    IN  [call |-> [fn |-> "stealth_async", page |-> p, cfg |-> name,
                   script |-> combined_script,
                   routeAttempts |-> hdr.routeAttempts,
                   rulesAtHandOver |-> Len(hdr.rules),
                   initAttempts |-> reg.attempts,
                   driverRaised |-> hdr.raised \/ ~reg.ok,
                   pc |-> "awaiting"],
         rules |-> hdr.rules, registered |-> reg.value, dropped |-> hdr.dropped]

PagesInit == PagesFresh /\ CfgParked /\ GenParked /\ ComposeParked /\ HeadersParked

otherVars == <<cfgVars, genVars, composeVars, headerVars>>

stealth_sync ==
    \E p \in Pages, name \in CallConfigs :
        /\ IsSyncPage(p)
        /\ Len(calls) < MaxCalls
        /\ LET run == StealthSyncRun(p, name)
           IN  /\ calls' = Append(calls, run.call)
               /\ routes' = [routes EXCEPT ![p] = run.rules]
               /\ initScripts' = [initScripts EXCEPT ![p] = run.registered]
               /\ neverAwaited' = neverAwaited + run.dropped
        /\ UNCHANGED <<pageOpen, headerCalls, requests, otherVars>>

stealth_async ==
    \E p \in Pages, name \in CallConfigs :
        /\ ~IsSyncPage(p)
        /\ Len(calls) < MaxCalls
        /\ LET run == StealthAsyncRun(p, name)
           IN  /\ calls' = Append(calls, run.call)
               /\ routes' = [routes EXCEPT ![p] = run.rules]
               /\ initScripts' = [initScripts EXCEPT ![p] = run.registered]
               /\ neverAwaited' = neverAwaited + run.dropped
        /\ UNCHANGED <<pageOpen, headerCalls, requests, otherVars>>

\* the awaited add_init_script completes and stealth_async returns or raises
stealth_async_resume ==
    \E i \in 1..Len(calls) :
        /\ calls[i].pc = "awaiting"
        /\ calls' = [calls EXCEPT ![i].pc = Outcome(~calls[i].driverRaised)]
        /\ UNCHANGED <<pageOpen, routes, initScripts, headerCalls, neverAwaited,
                       requests, otherVars>>

\* a caller awaits add_stealth_headers(page) itself
add_stealth_headers ==
    \E p \in Pages :
        /\ Len(headerCalls) < MaxHeaderCalls
        /\ LET run == AddStealthHeadersBody(p)
           IN  /\ routes' = [routes EXCEPT ![p] = run.rules]
               /\ neverAwaited' = neverAwaited + run.dropped
               /\ headerCalls' = Append(headerCalls,
                        [page |-> p, routeAttempts |-> run.routeAttempts,
                         pc |-> Outcome(~run.raised)])
        /\ UNCHANGED <<pageOpen, initScripts, calls, requests, otherVars>>

ClosePage ==
    \E p \in Pages :
        /\ pageOpen[p]
        /\ pageOpen' = [pageOpen EXCEPT ![p] = FALSE]
        /\ UNCHANGED <<routes, initScripts, calls, headerCalls, neverAwaited,
                       requests, otherVars>>

Next == stealth_sync \/ stealth_async \/ stealth_async_resume \/ add_stealth_headers
            \/ ClosePage

Spec == PagesInit /\ [][Next]_vars

RulePattern == "**/*"

HasRule(p) == \E k \in 1..Len(routes[p]) : routes[p][k] = RulePattern

\* C1: every apply call that returned has installed the Header Spoofer: it
\* registered the rule for every request on its page through route, and did
\* so before it handed the composed script to add_init_script.
C1_HeaderSpooferInstalled ==
    \A i \in 1..Len(calls) :
        calls[i].pc = "returned" =>
            /\ calls[i].routeAttempts = 1
            /\ calls[i].rulesAtHandOver >= 1
            /\ HasRule(calls[i].page)

\* the scripts of the calls on page p that the driver accepted, in call order
RECURSIVE AcceptedScripts(_, _)
AcceptedScripts(cs, p) ==
    IF cs = <<>> THEN <<>>
    ELSE (IF cs[1].page = p /\ ~cs[1].driverRaised THEN <<cs[1].script>> ELSE <<>>)
            \o AcceptedScripts(Tail(cs), p)

\* C7: each successful apply call registers exactly one init script, and the
\* scripts of a page are those of its successful calls in call order: a later
\* call neither replaces nor removes what an earlier one registered.
C7_OneScriptPerCallAppended ==
    /\ \A p \in Pages : initScripts[p] = AcceptedScripts(calls, p)
    /\ \A i \in 1..Len(calls) :
          calls[i].pc = "returned" =>
              /\ calls[i].initAttempts = 1
              /\ \E k \in 1..Len(initScripts[calls[i].page]) :
                    initScripts[calls[i].page][k] = calls[i].script

\* two calls with different configurations returned on the same page
C7_Witness ==
    \E p \in Pages :
        /\ Len(calls) = 2
        /\ calls[1].page = p /\ calls[2].page = p
        /\ calls[1].pc = "returned" /\ calls[2].pc = "returned"
        /\ calls[1].cfg # calls[2].cfg
        /\ initScripts[p] = <<calls[1].script, calls[2].script>>
        /\ calls[1].script # calls[2].script

\* C8: a failure of the driver during an apply call leaves the call as a
\* raised error (a call returns only when no driver operation failed), and
\* each driver registration is attempted at most once per call.
C8_FailuresPropagateNoRetry ==
    \A i \in 1..Len(calls) :
        /\ calls[i].initAttempts <= 1
        /\ calls[i].routeAttempts <= 1
        /\ calls[i].pc = "returned" => ~calls[i].driverRaised
        /\ calls[i].pc = "raised" => calls[i].driverRaised

\* an apply call on a closed page raised, for each of the two operations
C8_Witness ==
    \E i, j \in 1..Len(calls) :
        /\ calls[i].fn = "stealth_sync" /\ calls[i].pc = "raised"
        /\ calls[j].fn = "stealth_async" /\ calls[j].pc = "raised"
        /\ calls[i].initAttempts = 1 /\ calls[j].initAttempts = 1

----------------------------------------------------------------------------
(* NetSpec: the open pages issue requests; the driver intercepts those of a *)
(* page that has a rule and dispatches one handler callback per request,   *)
(* in any order.                                                           *)

\* the original headers of the requests of this model
RequestHeaders == {("user-agent" :> "v1") @@ ("x-requested-with" :> "v2")}

IssueRequest ==
    \E p \in Pages, h \in RequestHeaders :
        /\ Len(requests) < MaxRequests
        /\ pageOpen[p]
        /\ requests' = Append(requests,
                [page |-> p, headers |-> h,
                 status |-> IF HasRule(p) THEN "intercepted" ELSE "not intercepted",
                 continues |-> 0,
                 sent |-> IF HasRule(p) THEN EmptyDict ELSE h])
        /\ UNCHANGED <<pageOpen, routes, initScripts, calls, headerCalls, neverAwaited,
                       otherVars>>

\* the driver dispatches the callback of request r
RunHandler(r) ==
    /\ r \in 1..Len(requests)
    /\ requests[r].status = "intercepted"
    /\ LET ops == StealthHeadersHandler(requests[r])
       IN  requests' = [requests EXCEPT
                ![r].status = IF ops = <<>> THEN "left pending" ELSE "continued",
                ![r].continues = Len(ops),
                ![r].sent = IF ops = <<>> THEN EmptyDict ELSE ops[1].headers]
    /\ UNCHANGED <<pageOpen, routes, initScripts, calls, headerCalls, neverAwaited,
                   otherVars>>

HandleRequest == \E r \in 1..MaxRequests : RunHandler(r)

NetNext == add_stealth_headers \/ ClosePage \/ IssueRequest \/ HandleRequest

\* the driver dispatches the callback of an intercepted request as long as
\* there is one
NetSpec == PagesInit /\ [][NetNext]_vars /\ WF_vars(HandleRequest)

\* C4: every intercepted request is eventually continued, exactly once and
\* with the merged headers, in whatever order the callbacks are dispatched:
\* a continued request was continued once with the merged headers, an
\* intercepted request stays intercepted until it is continued, and again
\* and again no request is left intercepted.
C4_InterceptedRequestsContinuedOnce ==
    /\ [](\A r \in 1..Len(requests) :
            /\ requests[r].continues <= 1
            /\ requests[r].status = "continued" =>
                  /\ requests[r].continues = 1
                  /\ requests[r].sent = MergedHeaders(requests[r].headers))
    /\ [][\A r \in 1..Len(requests) :
            requests[r].status = "intercepted" =>
                requests'[r].status \in {"intercepted", "continued"}]_vars
    /\ []<>(\A r \in 1..Len(requests) : requests[r].status # "intercepted")

\* the callback of the second request ran while the first was still pending
C4_Witness ==
    /\ Len(requests) >= 2
    /\ requests[1].status = "intercepted"
    /\ requests[2].status = "continued"
    /\ requests[2].sent["user-agent"] = SpoofValue("user-agent")

----------------------------------------------------------------------------
(* SpecGen: two StealthConfig objects are constructed with the defaults;   *)
(* callers assign to their toggles (the dataclass is not frozen) and read  *)
(* enabled_scripts one next() at a time, to the end or not.                *)

\* the toggles the callers of this model assign to: the first, a middle and
\* the last of the if-chain
FlipToggles == {"chrome_app", "navigator_vendor", "webgl_vendor"}

\* the fields as they were when the object was constructed
FieldsAtConstruction(o) == DefaultConfig

\* self.<field> in the generator body: the field of the object at the time
\* the statement runs
FieldsRead(o) == objs[o]

GenInit ==
    /\ GenParked
    /\ CfgParked /\ ComposeParked /\ HeadersParked /\ PagesFresh

\* config.<toggle> = not config.<toggle>
SetToggle ==
    \E o \in Objects, t \in FlipToggles :
        /\ flips < MaxFlips
        /\ flips' = flips + 1
        /\ objs' = [objs EXCEPT ![o][t] = ~objs[o][t]]
        /\ gen' = IF gen.status = "open" /\ gen.obj = o
                  THEN [gen EXCEPT !.clean = FALSE] ELSE gen
        /\ UNCHANGED <<last, abandoned, cfgVars, composeVars, headerVars, pageVars>>

\* config.enabled_scripts: the property returns a new generator object
StartRead ==
    \E o \in Objects :
        /\ gen.status # "open"
        /\ gen' = [status |-> "open", obj |-> o, pc |-> 1, out |-> <<>>,
                   atStart |-> objs[o], clean |-> TRUE]
        /\ last' = IF gen.status = "exhausted" THEN gen ELSE last
        /\ UNCHANGED <<objs, flips, abandoned, cfgVars, composeVars, headerVars, pageVars>>

\* next(generator): the body runs to its next yield, or off its end
ResumeGen ==
    /\ gen.status = "open"
    /\ LET k == NextYield(FieldsRead(gen.obj), gen.pc)
       IN  gen' = IF k > Len(Body)
                  THEN [gen EXCEPT !.status = "exhausted", !.pc = k]
                  ELSE [gen EXCEPT !.pc = k + 1,
                                   !.out = Append(gen.out, YieldValue(FieldsRead(gen.obj), k))]
    /\ UNCHANGED <<objs, last, flips, abandoned, cfgVars, composeVars, headerVars, pageVars>>

\* the caller drops the generator part-way
AbandonRead ==
    /\ gen.status = "open"
    /\ gen.pc > 1
    /\ abandoned < MaxAbandoned
    /\ abandoned' = abandoned + 1
    /\ gen' = [gen EXCEPT !.status = "abandoned"]
    /\ UNCHANGED <<objs, last, flips, cfgVars, composeVars, headerVars, pageVars>>

GenNext == SetToggle \/ StartRead \/ ResumeGen \/ AbandonRead

SpecGen == GenInit /\ [][GenNext]_vars

Undisturbed(g) == g.status = "exhausted" /\ g.clean

\* C9: a read holds no memoized state. A complete read during which the
\* fields were not assigned emits the patch of a toggle exactly when the
\* toggle is on at the time of the read (also after the toggle was changed),
\* and two such reads of equal fields, on one object or on two, with or
\* without an abandoned read before them, yield identical sequences.
C9_ReadsRecomputedFromFields ==
    Undisturbed(gen) =>
        /\ \A t \in ToggleSet :
              (\E i \in 1..Len(gen.out) : gen.out[i] = SCRIPTS[t]) <=> gen.atStart[t]
        /\ gen.atStart = objs[gen.obj] => gen.out = enabled_scripts(objs[gen.obj])
        /\ (Undisturbed(last) /\ last.atStart = gen.atStart) => gen.out = last.out

\* after chrome_app was switched off, a complete read, then an abandoned
\* one, then a complete read of the other object with equal fields
C9_Witness ==
    /\ Undisturbed(gen) /\ Undisturbed(last)
    /\ last.atStart = gen.atStart
    /\ last.obj # gen.obj
    /\ ~gen.atStart["chrome_app"]
    /\ abandoned = 1
    /\ flips = 2

====
